---- MODULE Spec2Model ----
(***************************************************************************)
(* Smoke-plume simulation scripts and their exporters.                     *)
(*                                                                         *)
(*   src/smoke_plume/smoke_plume.py      single-gas simulation (main,step) *)
(*   src/two_gases_smoke_plume/main.py   two-gas simulation   (main,step)  *)
(*   src/smoke_plume/data.py             create_pinn_dataframe, __main__   *)
(*   src/smoke_plume/data_convert.py     convert_pkl_to_npy                *)
(*                                                                         *)
(* One behaviour is one run of one of the four scripts (variable prog).    *)
(*                                                                         *)
(* Numbers.  Floats are records [fin, v]: fin = FALSE is a non-finite      *)
(* value (inf/nan), v is the value in thousandths (fixed point, Scale).    *)
(* The density grid is one row of RX cells over [0, Lx].  The staggered    *)
(* velocity field is kept as the expression that computed it (a term       *)
(* [op, args, res, vals]): the PhiFlow operators that produce it are       *)
(* library code, so the model records which operator was applied to what.  *)
(* flow.advect.mac_cormack is library code too: its result is any density  *)
(* field over SmokeVals, or a non-finite field.                             *)
(***************************************************************************)
EXTENDS Integers, Sequences, FiniteSets, TLC

(* ------------------------------------------------------------------ *)
(* Bounds of the model                                                 *)
(* ------------------------------------------------------------------ *)

\* number of loop iterations (375 in both simulation scripts)
N_TIME_STEPS == 2

\* cells of the modelled row of the density grid (200 in the scripts)
RX == 2

\* largest extent of an axis of a stored snapshot array (exporters)
MaxDim == 3

(* ------------------------------------------------------------------ *)
(* Program constants                                                   *)
(* ------------------------------------------------------------------ *)

\* fixed-point unit: 1.0 is Scale
Scale == 10 * 10 * 10

\* flow.Box(x=100, y=100)
Lx == 100

\* StaggeredGrid(x=64, y=64)
VelocityRes == 64

\* DENSIDAD_GAS_1 = 1.0
DENSIDAD_GAS_1 == 1000

\* DENSIDAD_GAS_2 = 0.5
DENSIDAD_GAS_2 == 500

\* DENSIDAD_INICIAL_HUMO = 0.8
DENSIDAD_INICIAL_HUMO == 800

\* GRAVITY = 0.1
GRAVITY == 100

\* the 0.2 of inflow_density = 0.2 * DENSIDAD_INICIAL_HUMO, and of the
\* single-gas inflow = 0.2 * (Sphere @ smoke)
InflowRate == 200

\* the 50.0 of center.vector['x'] > 50.0
HalfDomainX == 50

\* dt=1.0, the default argument of step
dt == 1000

\* x_min, x_max = 0, 100 and y_min, y_max = 0, 100 of create_pinn_dataframe
x_min == 0

x_max == 100

y_min == 0

y_max == 100

(* ------------------------------------------------------------------ *)
(* Floats                                                              *)
(* ------------------------------------------------------------------ *)

F(n) == [fin |-> TRUE, v |-> n]

NonFinite == [fin |-> FALSE, v |-> 0]

FAdd(a, b) == IF a.fin /\ b.fin THEN F(a.v + b.v) ELSE NonFinite

FSub(a, b) == IF a.fin /\ b.fin THEN F(a.v - b.v) ELSE NonFinite

FMul(a, b) == IF a.fin /\ b.fin THEN F((a.v * b.v) \div Scale) ELSE NonFinite

Cells == 1..RX

\* values mac_cormack may leave in a cell (thousandths)
SmokeVals == {340, 1200}

(* ------------------------------------------------------------------ *)
(* Fields                                                              *)
(* ------------------------------------------------------------------ *)

\* flow.CenteredGrid(values=c, extrapolation=ext, x=RX, bounds=Box(x=Lx))
CenteredGrid(c, ext) ==
    [res |-> RX, bounds |-> Lx, ext |-> ext, vals |-> [j \in Cells |-> F(c)]]

\* flow.StaggeredGrid(values=(0.0, 0.0), extrapolation=0.0, x=64, y=64, bounds=Box)
StaggeredGrid ==
    [op |-> "StaggeredGrid", args |-> <<>>, res |-> VelocityRes, bounds |-> Lx]

\* pointwise field + field, field - field; the left operand's grid is kept
FieldAdd(f, g) == [f EXCEPT !.vals = [j \in Cells |-> FAdd(f.vals[j], g.vals[j])]]

FieldSub(f, g) == [f EXCEPT !.vals = [j \in Cells |-> FSub(f.vals[j], g.vals[j])]]

\* field * scalar
FieldScale(f, c) == [f EXCEPT !.vals = [j \in Cells |-> FMul(f.vals[j], c)]]

\* field * field
FieldMul(f, g) == [f EXCEPT !.vals = [j \in Cells |-> FMul(f.vals[j], g.vals[j])]]

\* field * (cx, cy): a vector field on the same grid
FieldTimesVector(f, cx, cy) ==
    [f EXCEPT !.vals = [j \in Cells |-> <<FMul(f.vals[j], cx), FMul(f.vals[j], cy)>>]]

\* x coordinate of the centre of cell j, as the fraction num/den
CenterX(j) == [num |-> (2 * j - 1) * Lx, den |-> 2 * RX]

\* a term of the velocity algebra: operator op applied to args
Term(op, args, res) == [op |-> op, args |-> args, res |-> res, bounds |-> Lx]

\* field @ target: the field resampled at target's sample points
Resample(f, target) == Term("resample", <<f>>, target.res)

IsFiniteField(f) == \A j \in Cells : f.vals[j].fin

\* a velocity term is finite unless a non-finite density field went into it
RECURSIVE IsFiniteTerm(_)
IsFiniteTerm(t) ==
    IF "vals" \in DOMAIN t
    THEN \A j \in DOMAIN t.vals : t.vals[j][1].fin /\ t.vals[j][2].fin
    ELSE \A k \in DOMAIN t.args : IsFiniteTerm(t.args[k])

(* ------------------------------------------------------------------ *)
(* State                                                               *)
(* ------------------------------------------------------------------ *)

VARIABLES
    prog,               \* the script that runs: "single", "two", "export", "convert"
    pc,                 \* position in the script
    err,                \* the exception that ended the script, "" if none
    velocity,           \* main: initial StaggeredGrid, also step's vel_struct
    smoke,              \* main: initial CenteredGrid, also the resampling template
    inflow,             \* main: inflow field
    background_density, \* main (two-gas): background density field
    current_velocity,   \* main: loop state
    current_smoke,      \* main: loop state
    n,                  \* main: iterations of the for loop completed
    step_calls,         \* history: the arguments of every call of step
    step_returns,       \* history: the pair every call of step returned
    ops,                \* history: sub-operations done in the current tick
    smoke_next,         \* step: local
    buoyancy_force,     \* step: local
    velocity_tent,      \* step: local
    velocity_next,      \* step: local
    all_smoke_data,     \* main: list of recorded density arrays
    all_velocity_data,  \* main: list of recorded velocity arrays
    disk,               \* files: pkl, csv, npy_smoke, npy_velocity
    data,               \* exporters: the unpickled container
    loc,                \* create_pinn_dataframe: local arrays
    df                  \* __main__ of data.py: result of create_pinn_dataframe

simVars == <<velocity, smoke, inflow, background_density, current_velocity,
             current_smoke, n, step_calls, step_returns, ops, smoke_next,
             buoyancy_force,
             velocity_tent, velocity_next, all_smoke_data, all_velocity_data>>

expVars == <<data, loc, df>>

vars == <<prog, pc, err, simVars, disk, expVars>>

Unset == [op |-> "unset", args |-> <<>>, res |-> 0, bounds |-> 0]

NoFile == [status |-> "missing"]

(* ------------------------------------------------------------------ *)
(* main of the simulations: construction                               *)
(* ------------------------------------------------------------------ *)

\* flow.Sphere(x=40, y=9.5, radius=5) @ smoke: the membership mask of the
\* source disk on the density grid; which cells it covers depends on the
\* resolution, so any 0/1 mask is admitted
SphereMasks == {[smoke0 EXCEPT !.vals = m] :
                   smoke0 \in {CenteredGrid(0, "BOUNDARY")},
                   m \in [Cells -> {F(0), F(Scale)}]}

\* flow.math.where(background_density.center.vector['x'] > 50.0, 1.0, 0.0)
half_domain_mask ==
    [CenteredGrid(0, "ZERO") EXCEPT !.vals =
        [j \in Cells |->
            IF CenterX(j).num > HalfDomainX * CenterX(j).den
            THEN F(Scale) ELSE F(0)]]

\* (background_density * (1.0 - half_domain_mask)) + (DENSIDAD_GAS_2 * half_domain_mask)
BackgroundDensity ==
    FieldAdd(FieldMul(CenteredGrid(DENSIDAD_GAS_1, "ZERO"),
                      FieldSub(CenteredGrid(Scale, "ZERO"), half_domain_mask)),
             FieldScale(half_domain_mask, F(DENSIDAD_GAS_2)))

\* inflow_density = 0.2 * DENSIDAD_INICIAL_HUMO
inflow_density == FMul(F(InflowRate), F(DENSIDAD_INICIAL_HUMO))

\* np.ndarray from a density field: Field.values.numpy("y,x")
SmokeNumpy(f) == [shape |-> <<1, f.res>>, values |-> f.vals]

\* np.ndarray from a resampled velocity: Field.numpy()
VelocityNumpy(t) == [shape |-> <<1, t.res, 2>>, values |-> t]

\* np.stack(list)
Stack(list) ==
    [shape |-> <<Len(list)>> \o list[1].shape,
     values |-> [k \in 1..Len(list) |-> list[k].values]]

InitSim(p) ==
    /\ prog = p
    /\ pc = "for"
    /\ err = ""
    /\ velocity = StaggeredGrid
    /\ smoke = CenteredGrid(0, "BOUNDARY")
    /\ \E mask \in SphereMasks :
          inflow = IF p = "two" THEN FieldScale(mask, inflow_density)
                                ELSE FieldScale(mask, F(InflowRate))
    /\ background_density = IF p = "two" THEN BackgroundDensity
                                         ELSE CenteredGrid(0, "ZERO")
    /\ current_velocity = StaggeredGrid
    /\ current_smoke = CenteredGrid(0, "BOUNDARY")
    /\ n = 0
    /\ step_calls = <<>>
    /\ step_returns = <<>>
    /\ ops = <<>>
    /\ smoke_next = Unset
    /\ buoyancy_force = Unset
    /\ velocity_tent = Unset
    /\ velocity_next = Unset
    /\ all_smoke_data = <<>>
    /\ all_velocity_data = <<>>
    /\ disk = [pkl |-> NoFile, csv |-> NoFile, npy_smoke |-> NoFile,
               npy_velocity |-> NoFile]
    /\ data = NoFile
    /\ loc = <<>>
    /\ df = [ok |-> FALSE]

(* ------------------------------------------------------------------ *)
(* step: library operators                                             *)
(* ------------------------------------------------------------------ *)

\* flow.advect.mac_cormack(field, velocity, dt): a field on field's grid
mac_cormack(field, vel, t) ==
    {[field EXCEPT !.vals = v] : v \in [Cells -> {F(x) : x \in SmokeVals}]}
    \cup {[field EXCEPT !.vals = [j \in Cells |-> NonFinite]]}

\* flow.advect.semi_lagrangian(field, velocity, dt)
semi_lagrangian(field, vel, t) == Term("semi_lagrangian", <<field, vel>>, field.res)

\* flow.fluid.make_incompressible(velocity)[0]
make_incompressible(v) == Term("make_incompressible", <<v>>, v.res)

\* the arguments of the running call of step
Arg == step_calls[Len(step_calls)]

Did(op) == ops' = Append(ops, op)

(* ------------------------------------------------------------------ *)
(* two_gases_smoke_plume/main.py: the loop and step                    *)
(* ------------------------------------------------------------------ *)

stepLocals == <<smoke_next, buoyancy_force, velocity_tent, velocity_next>>

mainFrame == <<velocity, smoke, inflow, background_density>>

recorded == <<all_smoke_data, all_velocity_data>>

loopState == <<current_velocity, current_smoke, n, step_returns>>

quiet == <<prog, err, disk, expVars>>

\* for _ in range(N_TIME_STEPS): step(current_velocity, current_smoke, inflow,
\*                                    background_density)
TG_Call ==
    /\ prog = "two" /\ pc = "for" /\ n < N_TIME_STEPS
    /\ step_calls' = Append(step_calls,
           [velocity_prev |-> current_velocity, smoke_prev |-> current_smoke,
            inflow_field |-> inflow, background_density_grid |-> background_density,
            vel_struct |-> velocity])
    /\ ops' = <<>>
    /\ pc' = "mac_cormack"
    /\ UNCHANGED <<mainFrame, loopState, stepLocals, recorded, quiet>>

\* smoke_next = flow.advect.mac_cormack(smoke_prev, velocity_prev, dt) ...
TG_MacCormack ==
    /\ prog = "two" /\ pc = "mac_cormack"
    /\ smoke_next' \in mac_cormack(Arg.smoke_prev, Arg.velocity_prev, dt)
    /\ Did("advect_smoke")
    /\ pc' = "inject"
    /\ UNCHANGED <<mainFrame, loopState, step_calls, buoyancy_force,
                   velocity_tent, velocity_next, recorded, quiet>>

\* TG_Inject adding in place into the inflow field, which main keeps
TG_Inject_InPlace ==
    /\ prog = "two" /\ pc = "inject"
    /\ smoke_next' = FieldAdd(smoke_next, Arg.inflow_field)
    /\ inflow' = FieldAdd(inflow, smoke_next)
    /\ Did("inject")
    /\ pc' = "buoyancy"
    /\ UNCHANGED <<velocity, smoke, background_density, loopState, step_calls,
                   buoyancy_force, velocity_tent, velocity_next, recorded, quiet>>

\* ... + inflow_field
TG_Inject ==
    /\ prog = "two" /\ pc = "inject"
    /\ smoke_next' = FieldAdd(smoke_next, Arg.inflow_field)
    /\ Did("inject")
    /\ pc' = "buoyancy"
    /\ UNCHANGED <<mainFrame, loopState, step_calls, buoyancy_force,
                   velocity_tent, velocity_next, recorded, quiet>>

\* density_difference with the operands exchanged
density_difference_reversed(background_density_grid, smoke_nxt) ==
    FieldSub(smoke_nxt, background_density_grid)

\* density_difference = background_density_grid - smoke_next
density_difference(background_density_grid, smoke_nxt) ==
    FieldSub(background_density_grid, smoke_nxt)

\* density_difference * (0.0, GRAVITY): the force on the density grid
ForceOnDensityGrid(diff) == FieldTimesVector(diff, F(0), F(GRAVITY))

\* buoyancy_force = density_difference * (0.0, GRAVITY) @ vel_struct
TG_Buoyancy ==
    /\ prog = "two" /\ pc = "buoyancy"
    /\ buoyancy_force' =
          Resample(ForceOnDensityGrid(
                       density_difference(Arg.background_density_grid, smoke_next)),
                   Arg.vel_struct)
    /\ Did("buoyancy")
    /\ pc' = "advect_velocity"
    /\ UNCHANGED <<mainFrame, loopState, step_calls, smoke_next,
                   velocity_tent, velocity_next, recorded, quiet>>

\* velocity_tent = flow.advect.semi_lagrangian(velocity_prev, velocity_prev, dt) ...
TG_AdvectVelocity ==
    /\ prog = "two" /\ pc = "advect_velocity"
    /\ velocity_tent' = semi_lagrangian(Arg.velocity_prev, Arg.velocity_prev, dt)
    /\ Did("advect_velocity")
    /\ pc' = "apply_buoyancy"
    /\ UNCHANGED <<mainFrame, loopState, step_calls, smoke_next,
                   buoyancy_force, velocity_next, recorded, quiet>>

\* ... + buoyancy_force * dt
TG_ApplyBuoyancy ==
    /\ prog = "two" /\ pc = "apply_buoyancy"
    /\ velocity_tent' =
          Term("add", <<velocity_tent,
                        Term("times_dt", <<buoyancy_force>>, buoyancy_force.res)>>,
               velocity_tent.res)
    /\ Did("apply_buoyancy")
    /\ pc' = "project"
    /\ UNCHANGED <<mainFrame, loopState, step_calls, smoke_next,
                   buoyancy_force, velocity_next, recorded, quiet>>

\* velocity_next, pressure = flow.fluid.make_incompressible(velocity_tent)
TG_Project ==
    /\ prog = "two" /\ pc = "project"
    /\ velocity_next' = make_incompressible(velocity_tent)
    /\ Did("project")
    /\ pc' = "return"
    /\ UNCHANGED <<mainFrame, loopState, step_calls, smoke_next,
                   buoyancy_force, velocity_tent, recorded, quiet>>

\* return velocity_next, smoke_next, assigned to current_velocity, current_smoke
TG_Return ==
    /\ prog = "two" /\ pc = "return"
    /\ current_velocity' = velocity_next
    /\ current_smoke' = smoke_next
    /\ step_returns' = Append(step_returns,
                               [velocity |-> velocity_next, smoke |-> smoke_next])
    /\ pc' = "record"
    /\ UNCHANGED <<mainFrame, n, step_calls, ops, stepLocals, recorded, quiet>>

\* TG_Record resampling the velocity onto a grid of the velocity's own
\* resolution instead of the density grid
TG_Record_VelocityTemplate ==
    /\ prog = "two" /\ pc = "record"
    /\ all_smoke_data' = Append(all_smoke_data, SmokeNumpy(current_smoke))
    /\ all_velocity_data' =
          Append(all_velocity_data, VelocityNumpy(Resample(current_velocity, velocity)))
    /\ Did("emit")
    /\ n' = n + 1
    /\ pc' = "for"
    /\ UNCHANGED <<mainFrame, current_velocity, current_smoke, step_calls,
                   step_returns, stepLocals, quiet>>

\* all_smoke_data.append(current_smoke.values.numpy("y,x"))
\* uniform_velocity = current_velocity @ smoke
\* all_velocity_data.append(uniform_velocity.numpy())
TG_Record ==
    /\ prog = "two" /\ pc = "record"
    /\ all_smoke_data' = Append(all_smoke_data, SmokeNumpy(current_smoke))
    /\ all_velocity_data' =
          Append(all_velocity_data, VelocityNumpy(Resample(current_velocity, smoke)))
    /\ Did("emit")
    /\ n' = n + 1
    /\ pc' = "for"
    /\ UNCHANGED <<mainFrame, current_velocity, current_smoke, step_calls,
                   step_returns, stepLocals, quiet>>

\* simulation_data = {...}; pickle.dump(simulation_data, f)
TG_Save ==
    /\ prog = "two" /\ pc = "for" /\ n = N_TIME_STEPS
    /\ disk' = [disk EXCEPT !.pkl =
          [status |-> "ok",
           smoke_density |-> Stack(all_smoke_data),
           velocity_field |-> Stack(all_velocity_data),
           background_density |-> SmokeNumpy(background_density),
           metadata |-> [N_TIME_STEPS |-> N_TIME_STEPS,
                         smoke_resolution |-> current_smoke.res,
                         velocity_resolution |-> current_velocity.res]]]
    /\ pc' = "saved"
    /\ UNCHANGED <<prog, err, simVars, expVars>>

(* ------------------------------------------------------------------ *)
(* smoke_plume/smoke_plume.py: the loop and step                       *)
(* ------------------------------------------------------------------ *)

\* for _ in range(N_TIME_STEPS): step(current_velocity, current_smoke, inflow)
SG_Call ==
    /\ prog = "single" /\ pc = "for" /\ n < N_TIME_STEPS
    /\ step_calls' = Append(step_calls,
           [velocity_prev |-> current_velocity, smoke_prev |-> current_smoke,
            inflow_field |-> inflow, background_density_grid |-> background_density,
            vel_struct |-> velocity])
    /\ ops' = <<>>
    /\ pc' = "mac_cormack"
    /\ UNCHANGED <<mainFrame, loopState, stepLocals, recorded, quiet>>

\* SG_MacCormack with the two operands of the sum exchanged in time: the
\* source is added to smoke_prev before anything is advected
SG_MacCormack_InjectFirst ==
    /\ prog = "single" /\ pc = "mac_cormack"
    /\ smoke_next' = FieldAdd(Arg.smoke_prev, Arg.inflow_field)
    /\ Did("inject")
    /\ pc' = "inject"
    /\ UNCHANGED <<mainFrame, loopState, step_calls, buoyancy_force,
                   velocity_tent, velocity_next, recorded, quiet>>

\* smoke_next = flow.advect.mac_cormack(smoke_prev, velocity_prev, dt) ...
SG_MacCormack ==
    /\ prog = "single" /\ pc = "mac_cormack"
    /\ smoke_next' \in mac_cormack(Arg.smoke_prev, Arg.velocity_prev, dt)
    /\ Did("advect_smoke")
    /\ pc' = "inject"
    /\ UNCHANGED <<mainFrame, loopState, step_calls, buoyancy_force,
                   velocity_tent, velocity_next, recorded, quiet>>

\* ... + inflow_field
SG_Inject ==
    /\ prog = "single" /\ pc = "inject"
    /\ smoke_next' = FieldAdd(smoke_next, Arg.inflow_field)
    /\ Did("inject")
    /\ pc' = "diffuse_smoke"
    /\ UNCHANGED <<mainFrame, loopState, step_calls, buoyancy_force,
                   velocity_tent, velocity_next, recorded, quiet>>

\* smoke_next = flow.diffuse.explicit(smoke_next, D * dt): the module binds no
\* name D (nor nu, used by the velocity diffusion), so evaluating the argument
\* raises NameError; nothing catches it and the script ends
SG_DiffuseSmoke ==
    /\ prog = "single" /\ pc = "diffuse_smoke"
    /\ err' = "NameError"
    /\ pc' = "raised"
    /\ UNCHANGED <<prog, simVars, disk, expVars>>

(* ------------------------------------------------------------------ *)
(* Snapshot containers read by the exporters                           *)
(* ------------------------------------------------------------------ *)

Dims == 1..MaxDim

\* number of elements of an array of this shape
Size(shape) == IF Len(shape) = 0 THEN 1 ELSE shape[1] * shape[2] * shape[3]

\* C-order index <<t, i, j>> of flat position f in an array of shape <<N, Ry, Rx>>
Unravel(f, shape) ==
    <<f \div (shape[2] * shape[3]), (f \div shape[3]) % shape[2], f % shape[3]>>

\* element ix of the stored array called name
Elem(name, ix) == [of |-> name, ix |-> ix]

\* what simulation_results.pkl may be when an exporter starts: absent,
\* not a pickle, or a container of a smoke and a velocity array
PklFiles ==
    {[status |-> st] : st \in {"missing", "corrupt"}}
    \cup {[status |-> "ok",
           smoke_density |-> [shape |-> ss],
           velocity_field |-> [shape |-> vs \o <<2>>]] :
             ss \in Dims \X Dims \X Dims, vs \in Dims \X Dims \X Dims}

InitExp(p) ==
    /\ prog = p
    /\ pc = "start"
    /\ err = ""
    /\ velocity = Unset /\ smoke = Unset /\ inflow = Unset
    /\ background_density = Unset
    /\ current_velocity = Unset /\ current_smoke = Unset
    /\ n = 0 /\ step_calls = <<>> /\ step_returns = <<>> /\ ops = <<>>
    /\ smoke_next = Unset /\ buoyancy_force = Unset
    /\ velocity_tent = Unset /\ velocity_next = Unset
    /\ all_smoke_data = <<>> /\ all_velocity_data = <<>>
    /\ \E f \in PklFiles :
          disk = [pkl |-> f, csv |-> NoFile, npy_smoke |-> NoFile,
                  npy_velocity |-> NoFile]
    /\ data = NoFile
    /\ loc = <<>>
    /\ df = [ok |-> FALSE]

(* ------------------------------------------------------------------ *)
(* numpy                                                               *)
(* ------------------------------------------------------------------ *)

\* a 1-d array: size and the element at each position 0..size-1
Arr(size, at) == [size |-> size, at |-> [k \in 0..(size - 1) |-> at[k]]]

Frac(num, den) == [num |-> num, den |-> den]

FrAdd(a, b) == Frac(a.num * b.den + b.num * a.den, a.den * b.den)

FrSub(a, b) == Frac(a.num * b.den - b.num * a.den, a.den * b.den)

FrHalf(a) == Frac(a.num, 2 * a.den)

FrEq(a, b) == a.num * b.den = b.num * a.den

\* linspace with numpy's default endpoint=True
linspace_endpoint(lo, hi, num) ==
    Arr(num, [k \in 0..(num - 1) |-> Frac(lo * (num - 1) + k * (hi - lo), num - 1)])

\* np.linspace(lo, hi, num, endpoint=False)
linspace(lo, hi, num) ==
    Arr(num, [k \in 0..(num - 1) |-> Frac(lo * num + k * (hi - lo), num)])

\* values += (values[1] - values[0]) / 2
ShiftHalfStep(values) ==
    LET h == FrHalf(FrSub(values.at[1], values.at[0]))
    IN Arr(values.size, [k \in 0..(values.size - 1) |-> FrAdd(values.at[k], h)])

\* np.arange(num) * 1.0
arange_float(num) == Arr(num, [k \in 0..(num - 1) |-> Frac(k * 1, 1)])

\* np.meshgrid(T, Y, X, indexing='ij')[axis].flatten()
MeshFlat(values, axis, shape) ==
    Arr(Size(shape),
        [f \in 0..(Size(shape) - 1) |-> values.at[Unravel(f, shape)[axis] ]])

\* array.flatten() of a stored 3-d array
Flatten(name, shape) ==
    Arr(Size(shape), [f \in 0..(Size(shape) - 1) |-> Elem(name, Unravel(f, shape))])

\* array[:, :, :, c].flatten() of a stored 4-d array
FlattenComponent(name, shape, c) ==
    Arr(Size(shape),
        [f \in 0..(Size(shape) - 1) |-> Elem(name, Unravel(f, shape) \o <<c>>)])

(* ------------------------------------------------------------------ *)
(* smoke_plume/data.py                                                 *)
(* ------------------------------------------------------------------ *)

simQuiet == <<prog, simVars>>

\* with open(pkl_file_path, 'rb') as f: data = pickle.load(f)
EX_Load ==
    /\ prog = "export" /\ pc = "start"
    /\ disk.pkl.status = "ok"
    /\ data' = disk.pkl
    /\ pc' = "coords"
    /\ UNCHANGED <<simQuiet, err, disk, loc, df>>

\* EX_LoadFail without the try/except: the load error propagates
EX_LoadFail_Raises ==
    /\ prog = "export" /\ pc = "start"
    /\ disk.pkl.status # "ok"
    /\ err' = "FileNotFoundError"
    /\ pc' = "raised"
    /\ UNCHANGED <<simQuiet, disk, data, loc, df>>

\* except Exception as e: print(...); return None
EX_LoadFail ==
    /\ prog = "export" /\ pc = "start"
    /\ disk.pkl.status # "ok"
    /\ df' = [ok |-> FALSE]
    /\ pc' = "main"
    /\ UNCHANGED <<simQuiet, err, disk, data, loc>>

\* num_timesteps, res_y, res_x = smoke.shape; X_values, Y_values, T_values
EX_Coords ==
    /\ prog = "export" /\ pc = "coords"
    /\ LET shape == data.smoke_density.shape
           res_y == shape[2]
           res_x == shape[3]
       IN \/ /\ res_x < 2                  \* X_values[1]: IndexError
             /\ err' = "IndexError" /\ pc' = "raised"
             /\ UNCHANGED loc
          \/ /\ res_x >= 2 /\ res_y < 2    \* Y_values[1]: IndexError
             /\ err' = "IndexError" /\ pc' = "raised"
             /\ UNCHANGED loc
          \/ /\ res_x >= 2 /\ res_y >= 2
             /\ loc' = [X_values |-> ShiftHalfStep(linspace(x_min, x_max, res_x)),
                        Y_values |-> ShiftHalfStep(linspace(y_min, y_max, res_y)),
                        T_values |-> arange_float(shape[1])]
             /\ pc' = "flatten"
             /\ UNCHANGED err
    /\ UNCHANGED <<simQuiet, disk, data, df>>

\* T_grid, Y_grid, X_grid = np.meshgrid(...); the six .flatten() calls
EX_Flatten ==
    /\ prog = "export" /\ pc = "flatten"
    /\ LET shape == data.smoke_density.shape
           vshape == SubSeq(data.velocity_field.shape, 1, 3)
       IN loc' = [T_flat |-> MeshFlat(loc.T_values, 1, shape),
                  X_flat |-> MeshFlat(loc.X_values, 3, shape),
                  Y_flat |-> MeshFlat(loc.Y_values, 2, shape),
                  Smoke_flat |-> Flatten("smoke_density", shape),
                  U_flat |-> FlattenComponent("velocity_field", vshape, 0),
                  V_flat |-> FlattenComponent("velocity_field", vshape, 1)]
    /\ pc' = "check"
    /\ UNCHANGED <<simQuiet, err, disk, data, df>>

\* SizesDiffer comparing the coordinates with the density flattening
SizesDiffer_Smoke(l) == l.T_flat.size # l.Smoke_flat.size

\* if T_flat.size != U_flat.size
SizesDiffer(l) == l.T_flat.size # l.U_flat.size

\* the size check, then pd.DataFrame({...}); return data_frame
EX_Check ==
    /\ prog = "export" /\ pc = "check"
    /\ \/ /\ SizesDiffer(loc)
          /\ err' = "ValueError" /\ pc' = "raised"
          /\ UNCHANGED df
       \/ /\ ~SizesDiffer(loc)
          /\ df' = [ok |-> TRUE, t |-> loc.T_flat, x |-> loc.X_flat,
                    y |-> loc.Y_flat, u |-> loc.U_flat, v |-> loc.V_flat,
                    density |-> loc.Smoke_flat]
          /\ pc' = "main"
          /\ UNCHANGED err
    /\ UNCHANGED <<simQuiet, disk, data, loc>>

\* if df is not None: df.to_csv("simulation_data_pinn.csv", index=False)
EX_Main ==
    /\ prog = "export" /\ pc = "main"
    /\ \/ /\ df.ok
          /\ disk' = [disk EXCEPT !.csv = [status |-> "ok", table |-> df]]
       \/ /\ ~df.ok
          /\ UNCHANGED disk
    /\ pc' = "done"
    /\ UNCHANGED <<simQuiet, err, expVars>>

(* ------------------------------------------------------------------ *)
(* smoke_plume/data_convert.py                                         *)
(* ------------------------------------------------------------------ *)

\* with open(pkl_file, 'rb') as f: data = pickle.load(f)
CV_Load ==
    /\ prog = "convert" /\ pc = "start"
    /\ disk.pkl.status = "ok"
    /\ data' = disk.pkl
    /\ pc' = "save_smoke"
    /\ UNCHANGED <<simQuiet, err, disk, loc, df>>

\* except Exception as e: print(...); return
CV_LoadFail ==
    /\ prog = "convert" /\ pc = "start"
    /\ disk.pkl.status # "ok"
    /\ pc' = "done"
    /\ UNCHANGED <<simQuiet, err, disk, expVars>>

\* np.save(smoke_npy_file, smoke_data)
CV_SaveSmoke ==
    /\ prog = "convert" /\ pc = "save_smoke"
    /\ disk' = [disk EXCEPT !.npy_smoke =
                   [status |-> "ok", array |-> data.smoke_density]]
    /\ pc' = "save_velocity"
    /\ UNCHANGED <<simQuiet, err, expVars>>

\* np.save(velocity_npy_file, velocity_data)
CV_SaveVelocity ==
    /\ prog = "convert" /\ pc = "save_velocity"
    /\ disk' = [disk EXCEPT !.npy_velocity =
                   [status |-> "ok", array |-> data.velocity_field]]
    /\ pc' = "done"
    /\ UNCHANGED <<simQuiet, err, expVars>>

(* ------------------------------------------------------------------ *)
(* Specification                                                       *)
(* ------------------------------------------------------------------ *)

Init ==
    \/ InitSim("single")
    \/ InitSim("two")
    \/ InitExp("export")
    \/ InitExp("convert")

Next ==
    \/ TG_Call \/ TG_MacCormack \/ TG_Inject \/ TG_Buoyancy
    \/ TG_AdvectVelocity \/ TG_ApplyBuoyancy \/ TG_Project \/ TG_Return
    \/ TG_Record \/ TG_Save
    \/ SG_Call \/ SG_MacCormack \/ SG_Inject \/ SG_DiffuseSmoke
    \/ EX_Load \/ EX_LoadFail \/ EX_Coords \/ EX_Flatten \/ EX_Check \/ EX_Main
    \/ CV_Load \/ CV_LoadFail \/ CV_SaveSmoke \/ CV_SaveVelocity

Spec == Init /\ [][Next]_vars

(* ------------------------------------------------------------------ *)
(* Properties                                                          *)
(* ------------------------------------------------------------------ *)

IsPrefix(a, b) == Len(a) <= Len(b) /\ SubSeq(b, 1, Len(a)) = a

Simulation == prog \in {"single", "two"}

\* a call of step has returned and the loop has not called step again
StepReturned ==
    /\ Simulation
    /\ Len(step_returns) >= 1
    /\ Len(step_returns) = Len(step_calls)

\* the order of the sub-operations of a tick as the specification lists them
ClaimedOrder ==
    <<"inject", "advect_smoke", "diffuse_smoke", "buoyancy", "advect_velocity",
      "diffuse_velocity", "apply_buoyancy", "project", "emit">>

\* the order of the statements of step and of the loop body in smoke_plume.py
SingleGasOrder ==
    <<"advect_smoke", "inject", "diffuse_smoke", "buoyancy", "advect_velocity",
      "apply_buoyancy", "diffuse_velocity", "project", "emit">>

\* the order of the statements of step and of the loop body in
\* two_gases_smoke_plume/main.py, which diffuses nothing
TwoGasOrder ==
    <<"advect_smoke", "inject", "buoyancy", "advect_velocity", "apply_buoyancy",
      "project", "emit">>

ReturnedVelocityIsProjected ==
    Simulation =>
        /\ \A k \in 1..Len(step_returns) :
              /\ step_returns[k].velocity.op = "make_incompressible"
              /\ step_returns[k].velocity.args[1].op = "add"
        /\ StepReturned =>
              /\ current_velocity = step_returns[Len(step_returns)].velocity
              /\ current_velocity.args = <<velocity_tent>>
        /\ \A k \in 2..Len(step_calls) :
              step_calls[k].velocity_prev = step_returns[k - 1].velocity
        /\ \A k \in 1..Len(all_velocity_data) :
              all_velocity_data[k].values.args[1] = step_returns[k].velocity

\* C3 as stated: the single-gas run ends only after exactly N_TIME_STEPS
\* calls of step, each returned, and then reaches the persistence stage.
C3_ExactlyNSteps ==
    prog = "single" /\ pc \in {"raised", "saved"} =>
        /\ pc = "saved"
        /\ Len(step_calls) = N_TIME_STEPS
        /\ Len(step_returns) = N_TIME_STEPS

\* the array main records for the smoke / the velocity a step returned
RecordedSmokeOf(r) == [shape |-> <<1, RX>>, values |-> r.smoke.vals]

RecordedVelocityOf(r) ==
    [shape |-> <<1, RX, 2>>,
     values |-> [op |-> "resample", args |-> <<r.velocity>>, res |-> RX,
                 bounds |-> Lx]]

\* C4 (state part): the two lists have one entry per completed iteration,
\* entry k being the smoke array and the velocity resampled at the density
\* grid's resolution of what the k-th step returned; the initial state is
\* not among them; the container written holds exactly the N entries of each
\* list and N_TIME_STEPS = N.
C4_Recorded ==
    Simulation =>
        /\ Len(all_smoke_data) = n /\ Len(all_velocity_data) = n
        /\ n <= Len(step_returns) /\ Len(step_returns) <= n + 1
        /\ (pc = "for" => Len(step_returns) = n)
        /\ \A k \in 1..n :
              /\ all_smoke_data[k] = RecordedSmokeOf(step_returns[k])
              /\ all_velocity_data[k] = RecordedVelocityOf(step_returns[k])
              /\ all_smoke_data[k].values # smoke.vals
        /\ (disk.pkl.status = "ok" =>
              /\ n = N_TIME_STEPS
              /\ disk.pkl.smoke_density.shape = <<N_TIME_STEPS, 1, RX>>
              /\ disk.pkl.velocity_field.shape = <<N_TIME_STEPS, 1, RX, 2>>
              /\ DOMAIN disk.pkl.smoke_density.values = 1..N_TIME_STEPS
              /\ DOMAIN disk.pkl.velocity_field.values = 1..N_TIME_STEPS
              /\ \A k \in 1..N_TIME_STEPS :
                    /\ disk.pkl.smoke_density.values[k] = all_smoke_data[k].values
                    /\ disk.pkl.velocity_field.values[k] = all_velocity_data[k].values
              /\ disk.pkl.metadata.N_TIME_STEPS = N_TIME_STEPS)

\* C4 (step part): a step of the program only appends to the lists.
C4_AppendOnly ==
    /\ IsPrefix(all_smoke_data, all_smoke_data')
    /\ IsPrefix(all_velocity_data, all_velocity_data')
    /\ Len(all_smoke_data') <= Len(all_smoke_data) + 1

\* C4: at the end of every iteration k both lists hold exactly k entries,
\* entry k recorded from what step k returned, earlier entries unchanged, the
\* initial state never recorded, and the persisted container holds exactly N
\* smoke and N velocity arrays with metadata N_TIME_STEPS = N.
C4_SnapshotLists == [] C4_Recorded /\ [][C4_AppendOnly]_vars

\* C4 witness: the two-gas run has persisted its container of N entries.
C4_Witness ==
    /\ prog = "two" /\ pc = "saved" /\ disk.pkl.status = "ok"
    /\ Len(all_smoke_data) = N_TIME_STEPS /\ N_TIME_STEPS >= 2

\* the loaded container's velocity and density flattenings differ in length
CountsDiffer ==
    /\ disk.pkl.status = "ok"
    /\ Size(SubSeq(disk.pkl.velocity_field.shape, 1, 3))
          # Size(disk.pkl.smoke_density.shape)

\* C5: when the velocity and the density flattenings have different point
\* counts, create_pinn_dataframe returns no DataFrame, ends by raising, and no
\* CSV is written.
C5_MismatchRaises ==
    prog = "export" /\ CountsDiffer =>
        /\ ~df.ok
        /\ disk.csv.status = "missing"
        /\ pc \in {"start", "coords", "flatten", "check", "raised"}
        /\ (pc = "raised" => err \in {"ValueError", "IndexError"})

\* C5 witness: the size check has raised ValueError on a mismatch.
C5_Witness ==
    /\ prog = "export" /\ CountsDiffer
    /\ pc = "raised" /\ err = "ValueError" /\ ~df.ok

\* the loaded container has smoke of shape (N, Ry, Rx) and velocity of
\* shape (N, Ry, Rx, 2)
SameShape ==
    /\ disk.pkl.status = "ok"
    /\ disk.pkl.velocity_field.shape = disk.pkl.smoke_density.shape \o <<2>>

\* the table df has N*Ry*Rx rows, and its row at flat index (t*Ry + i)*Rx + j
\* holds t*1.0, the centre of cell (i, j) on [0,100] x [0,100], smoke[t,i,j],
\* velocity[t,i,j,0] and velocity[t,i,j,1]
RowsAsClaimed(table, N, Ry, Rx) ==
    /\ table.ok
    /\ \A col \in {"t", "x", "y", "u", "v", "density"} :
          /\ table[col].size = N * Ry * Rx
          /\ DOMAIN table[col].at = 0..(N * Ry * Rx - 1)
    /\ \A t \in 0..(N - 1), i \in 0..(Ry - 1), j \in 0..(Rx - 1) :
          LET f == (t * Ry + i) * Rx + j
          IN /\ FrEq(table.t.at[f], Frac(t, 1))
             /\ FrEq(table.x.at[f], Frac((2 * j + 1) * 100, 2 * Rx))
             /\ FrEq(table.y.at[f], Frac((2 * i + 1) * 100, 2 * Ry))
             /\ table.density.at[f] = [of |-> "smoke_density", ix |-> <<t, i, j>>]
             /\ table.u.at[f] = [of |-> "velocity_field", ix |-> <<t, i, j, 0>>]
             /\ table.v.at[f] = [of |-> "velocity_field", ix |-> <<t, i, j, 1>>]

\* C6 as stated: for smoke (N, Ry, Rx) and velocity (N, Ry, Rx, 2) with
\* N, Ry, Rx >= 1, create_pinn_dataframe returns the table of N*Ry*Rx rows
\* whose columns all refer to the same step and grid point.
C6_TableForEveryShape ==
    prog = "export" /\ SameShape =>
        LET shape == disk.pkl.smoke_density.shape
        IN /\ pc # "raised"
           /\ (pc \in {"main", "done"}
                  => RowsAsClaimed(df, shape[1], shape[2], shape[3]))

\* C6 amended: the same for N >= 1 and Ry, Rx >= 2; when Ry = 1 or Rx = 1
\* the function raises IndexError (it takes the spacing from the first two
\* coordinates) and returns no table.
C6_TableRows ==
    prog = "export" /\ SameShape =>
        LET shape == disk.pkl.smoke_density.shape
            wide == shape[2] >= 2 /\ shape[3] >= 2
        IN /\ (wide => /\ pc # "raised"
                       /\ (pc \in {"main", "done"}
                              => RowsAsClaimed(df, shape[1], shape[2], shape[3]))
                       /\ (pc = "done" => disk.csv = [status |-> "ok", table |-> df]))
           /\ (~wide => /\ ~df.ok
                        /\ pc \in {"start", "coords", "raised"}
                        /\ (pc = "raised" => err = "IndexError")
                        /\ disk.csv.status = "missing")

\* C6 witness: a table was returned for a container that is not square, of
\* more than one step.
C6_Witness ==
    /\ prog = "export" /\ SameShape /\ pc = "done" /\ df.ok
    /\ disk.pkl.smoke_density.shape = <<2, 2, 3>>
    /\ df.density.size = 12

\* C7 as stated: once a step has returned a non-finite field, no later step
\* is called and that state is not recorded.
C7_AbortOnNonFinite ==
    Simulation =>
        \A k \in 1..Len(step_returns) :
            ~(IsFiniteField(step_returns[k].smoke)
                 /\ IsFiniteTerm(step_returns[k].velocity))
            => /\ Len(step_calls) = k
               /\ Len(all_smoke_data) < k
               /\ Len(all_velocity_data) < k
               /\ disk.pkl.status = "missing"

\* the background density the specification gives the cell centred at cx
ClaimedBackground(cx) == IF cx.num <= 50 * cx.den THEN 1000 ELSE 500

\* the force of the running step has been computed from the current smoke_next
ForceComputed ==
    /\ prog = "two"
    /\ Len(step_calls) >= 1
    /\ pc \in {"advect_velocity", "apply_buoyancy", "project", "return",
               "record", "for", "saved"}

C9_FrameOfStep ==
    Simulation =>
        /\ velocity = [op |-> "StaggeredGrid", args |-> <<>>, res |-> VelocityRes,
                       bounds |-> Lx]
        /\ smoke.res = RX /\ smoke.bounds = Lx /\ \A j \in Cells : smoke.vals[j].v = 0
        /\ current_smoke.res = RX /\ current_smoke.bounds = Lx
        /\ current_velocity.res = VelocityRes /\ current_velocity.bounds = Lx
        /\ inflow.res = RX /\ background_density.res = RX
        /\ \A k \in 1..Len(step_calls) :
              /\ step_calls[k].inflow_field = inflow
              /\ step_calls[k].background_density_grid = background_density
              /\ step_calls[k].vel_struct = velocity
              /\ step_calls[k].smoke_prev.res = RX
              /\ step_calls[k].smoke_prev.bounds = Lx
              /\ step_calls[k].velocity_prev.res = VelocityRes
              /\ step_calls[k].velocity_prev.bounds = Lx

\* C9 witness: the two-gas loop has completed its last step and the smoke
\* changed while the inflow it was given did not.
C9_Witness ==
    /\ prog = "two" /\ Len(step_calls) = N_TIME_STEPS /\ n = N_TIME_STEPS
    /\ N_TIME_STEPS >= 2
    /\ current_smoke # smoke
    /\ step_calls[N_TIME_STEPS].inflow_field = step_calls[1].inflow_field

\* C10: when the snapshot file cannot be opened or unpickled, the export
\* script raises nothing, builds no table and writes no CSV, and the
\* converter writes neither .npy file.
C10_LoadFailure ==
    prog \in {"export", "convert"} /\ disk.pkl.status # "ok" =>
        /\ err = ""
        /\ pc \in {"start", "main", "done"}
        /\ ~df.ok
        /\ loc = <<>>
        /\ disk.csv.status = "missing"
        /\ disk.npy_smoke.status = "missing"
        /\ disk.npy_velocity.status = "missing"

\* C10 witness: the export script has ended after a failed load.
C10_Witness ==
    /\ prog = "export" /\ disk.pkl.status = "corrupt" /\ pc = "done"
    /\ ~df.ok /\ disk.csv.status = "missing"

====
